---- MODULE Spec2Model ----
(***************************************************************************)
(* Fractal-Animator (src/fractalAnimator.cpp): the escape-time evaluator,  *)
(* the colour mapping, the supersampler, the multithreaded band renderer,  *)
(* the iteration controller and the operations of the main loop that       *)
(* change the RenderState.                                                 *)
(*                                                                         *)
(* Numbers.  int is a 32-bit two's complement integer.  double and float   *)
(* values are modelled as decimal floating-point numbers                   *)
(*      [m |-> mantissa, e |-> exponent, fin |-> finite?]  =  m * 10^e     *)
(* with a four-digit mantissa (1000 <= |m| <= 9999, or m = 0); every       *)
(* arithmetic result is cut to four digits where the IEEE operation rounds *)
(* to 53 (24) bits, and kept to the range of a double.  fin = FALSE stands *)
(* for the non-finite values NaN and +-infinity.  The libm functions log, log10, sin and atan2 are evaluated *)
(* by table or low-order approximation (two decimals of log10).            *)
(* Converting a non-finite or out-of-range value to an integer type is     *)
(* undefined behaviour: its outcome is a value fixed by the build          *)
(* (variable build), chosen nondeterministically in the initial state.     *)
(***************************************************************************)
EXTENDS Integers, Sequences, FiniteSets, TLC

VARIABLES
    state,        \* the RenderState (lines 32-54)
    build,        \* outcomes of the undefined conversions in this build
    pc,           \* position of the modelled caller
    width,        \* image width passed to renderFractal
    height,       \* image height passed to renderFractal
    numThreads,   \* NUM_THREADS (line 25), fixed at program start
    pixels,       \* the pixel buffer: byte index -> byte value, -1 = not yet written
    wlog,         \* history: byte index -> sequence of the workers that wrote it
    threads,      \* renderFractal's std::vector<std::thread>, with each worker's position
    px,           \* the pixel under evaluation: [x, y]
    args,         \* the arguments of a calculateFractal call
    info,         \* the ReturnInfo of the last calculateFractal call; in a render
                  \* followed to its end, pixel -> locals its calls end with
    sample,       \* the sample coordinate [cr, ci] of the last single-sample evaluation
    metric,       \* the colour metric ("iterations", lines 260-266)
    color,        \* the colour last produced; in a render followed to its end,
                  \* pixel -> colour
    animating,    \* line 12: compile-time switch of the main loop
    frame,        \* line 13: frame counter
    windowOpen,   \* window.isOpen()
    viewChanged,  \* line 363
    pendingHighQualityRender,   \* line 365
    needsRedraw,  \* line 370
    scrollTimer,  \* line 364: has more than SCROLL_RENDER_DELAY passed since its restart
    texture,      \* the RenderState whose render the texture holds
    screenshots,  \* the files saveScreenshot has written (lines 283-301)
    presses       \* wheel and K-key events handled so far

renderVars == <<width, height, numThreads, pixels, wlog, threads>>
pixelVars == <<px, args, info, sample, metric, color>>
mainVars == <<animating, frame, windowOpen, viewChanged, pendingHighQualityRender,
              needsRedraw, scrollTimer, texture, screenshots, presses>>
vars == <<state, build, pc, renderVars, pixelVars, mainVars>>

-----------------------------------------------------------------------------
(* 32-bit int *)

INT_MAX == 2147483647
INT_MIN == -INT_MAX - 1

Abs(n) == IF n < 0 THEN -n ELSE n
Sgn(n) == IF n < 0 THEN -1 ELSE 1
Min(a, b) == IF a < b THEN a ELSE b
Max(a, b) == IF a < b THEN b ELSE a

\* C++ integer division truncates toward zero.
TruncDiv(a, b) == Sgn(a) * Sgn(b) * (Abs(a) \div Abs(b))

-----------------------------------------------------------------------------
(* double / float as four-digit decimal floating point *)

Pow10(k) == <<1, 10, 100, 1000, 10000, 100000, 1000000, 10000000, 100000000, 1000000000>>[k + 1]

NumDigits(n) ==
    IF n < 10 THEN 1 ELSE IF n < 100 THEN 2 ELSE IF n < 1000 THEN 3
    ELSE IF n < 10000 THEN 4 ELSE IF n < 100000 THEN 5 ELSE IF n < 1000000 THEN 6
    ELSE IF n < 10000000 THEN 7 ELSE IF n < 100000000 THEN 8
    ELSE IF n < 1000000000 THEN 9 ELSE 10

DZero == [m |-> 0, e |-> 0, fin |-> TRUE]
DNonFinite == [m |-> 0, e |-> 0, fin |-> FALSE]

\* m * 10^e cut to a four-digit mantissa, m # 0 with d digits.
Cut(m, e, d) ==
    IF d > 4
    THEN [m |-> Sgn(m) * (Abs(m) \div Pow10(d - 4)), e |-> e + (d - 4), fin |-> TRUE]
    ELSE [m |-> m * Pow10(4 - d), e |-> e - (4 - d), fin |-> TRUE]

\* The range of a double: beyond 1.797e308 a result is an infinity, below
\* 4.9e-324 it is 0.
Ranged(a) ==
    IF a.e > 305 \/ (a.e = 305 /\ Abs(a.m) > 1797) THEN DNonFinite
    ELSE IF a.e < -327 THEN DZero
    ELSE a

\* The double nearest m * 10^e.
DNorm(m, e) == IF m = 0 THEN DZero ELSE Ranged(Cut(m, e, NumDigits(Abs(m))))

DInt(n) == DNorm(n, 0)
DNeg(a) == [a EXCEPT !.m = -a.m]

DMul(a, b) ==
    IF ~a.fin \/ ~b.fin THEN DNonFinite ELSE DNorm(a.m * b.m, a.e + b.e)

\* x / 0 is an infinity or NaN.
DDiv(a, b) ==
    IF ~a.fin \/ ~b.fin \/ b.m = 0 THEN DNonFinite
    ELSE DNorm(TruncDiv(a.m * 100000, b.m), a.e - b.e - 5)

DAdd(a, b) ==
    IF ~a.fin \/ ~b.fin THEN DNonFinite
    ELSE IF a.m = 0 THEN b
    ELSE IF b.m = 0 THEN a
    ELSE LET hi == IF a.e >= b.e THEN a ELSE b
             lo == IF a.e >= b.e THEN b ELSE a
             d  == hi.e - lo.e
         IN  IF d > 4 THEN hi ELSE DNorm(hi.m * Pow10(d) + lo.m, lo.e)

DSub(a, b) == DAdd(a, DNeg(b))

\* a < b; every comparison with a NaN is false.
DLess(a, b) ==
    /\ a.fin /\ b.fin
    /\ IF a.m = 0 \/ b.m = 0 \/ Sgn(a.m) # Sgn(b.m) THEN
           IF a.m = 0 THEN b.m > 0 ELSE IF b.m = 0 THEN a.m < 0 ELSE a.m < b.m
       ELSE IF a.m > 0 THEN a.e < b.e \/ (a.e = b.e /\ a.m < b.m)
       ELSE a.e > b.e \/ (a.e = b.e /\ a.m < b.m)

DAbs(a) == [a EXCEPT !.m = Abs(a.m)]

\* std::floor, for |a| below 10^4 * 10^5.
DFloorInt(a) ==
    IF a.e >= 0 THEN a.m * Pow10(a.e)
    ELSE IF a.e < -4 THEN (IF a.m < 0 THEN -1 ELSE 0)
    ELSE a.m \div Pow10(-a.e)

\* Is static_cast<int>(a) defined: a finite and its truncation within int.
InIntRange(a) ==
    /\ a.fin
    /\ \/ a.e < 6
       \/ a.e = 6 /\ Abs(a.m) <= 2147

\* static_cast<int>(a) where it is defined: truncation toward zero.
DTruncInt(a) ==
    IF a.e >= 0 THEN a.m * Pow10(a.e)
    ELSE IF a.e < -4 THEN 0
    ELSE TruncDiv(a.m, Pow10(-a.e))

-----------------------------------------------------------------------------
(* libm *)

\* Least four-digit mantissas m with m / 1000 >= 10^(r / 100), r = 0 .. 99.
Log10Table ==
    <<1000, 1024, 1048, 1072, 1097, 1123, 1149, 1175, 1203, 1231,
      1259, 1289, 1319, 1349, 1381, 1413, 1446, 1480, 1514, 1549,
      1585, 1622, 1660, 1699, 1738, 1779, 1820, 1863, 1906, 1950,
      1996, 2042, 2090, 2138, 2188, 2239, 2291, 2345, 2399, 2455,
      2512, 2571, 2631, 2692, 2755, 2819, 2885, 2952, 3020, 3091,
      3163, 3236, 3312, 3389, 3468, 3549, 3631, 3716, 3802, 3891,
      3982, 4074, 4169, 4266, 4366, 4467, 4571, 4678, 4787, 4898,
      5012, 5129, 5249, 5371, 5496, 5624, 5755, 5889, 6026, 6166,
      6310, 6457, 6607, 6761, 6919, 7080, 7245, 7414, 7586, 7763,
      7944, 8129, 8318, 8512, 8710, 8913, 9121, 9333, 9550, 9773>>

\* The greatest r in lo .. hi with Log10Table[r] <= m, where Log10Table[lo] <= m.
RECURSIVE Log10Rank(_, _, _)
Log10Rank(m, lo, hi) ==
    IF lo = hi THEN lo
    ELSE IF Log10Table[(lo + hi + 1) \div 2] <= m
         THEN Log10Rank(m, (lo + hi + 1) \div 2, hi)
         ELSE Log10Rank(m, lo, ((lo + hi + 1) \div 2) - 1)

\* floor(100 * log10(a)) for finite a > 0.
Log10x100Floor(a) == 100 * (a.e + 3) + (Log10Rank(a.m, 1, Len(Log10Table)) - 1)

\* log10(a): NaN for a < 0, -infinity for a = 0.
DLog10(a) ==
    IF ~a.fin \/ a.m <= 0 THEN DNonFinite ELSE DNorm(Log10x100Floor(a), -2)

\* log(a) = log10(a) * ln(10).
DLog(a) == DMul(DLog10(a), DNorm(2303, -3))
LogOf2 == DLog(DInt(2))

\* atan(q) / pi on 0 <= q <= 1: atan(q) ~ (pi/4) q + 0.273 q (1 - q).
AtanTurns(q) ==
    DAdd(DMul(DNorm(25, -2), q), DMul(DNorm(869, -4), DMul(q, DSub(DInt(1), q))))

\* The angle of (ax, ay), both >= 0 and not both 0, over pi: in [0, 1/2].
QuadrantTurns(ax, ay) ==
    IF DLess(ax, ay) THEN DSub(DNorm(5, -1), AtanTurns(DDiv(ax, ay)))
    ELSE AtanTurns(DDiv(ay, ax))

Reflect(base, zr, zi) ==
    IF zr.m >= 0 THEN (IF zi.m < 0 THEN DNeg(base) ELSE base)
    ELSE (IF zi.m < 0 THEN DNeg(DSub(DInt(1), base)) ELSE DSub(DInt(1), base))

\* atan2(zi, zr) / pi, in [-1, 1].
Atan2Turns(zi, zr) ==
    IF zr.m = 0 /\ zi.m = 0 THEN DZero
    ELSE Reflect(QuadrantTurns(DAbs(zr), DAbs(zi)), zr, zi)

DSquare(a) == DMul(a, a)

\* sin(pi v) ~ 4 v (1 - v) on 0 <= v <= 1.
SinTurns(v) == DMul(DInt(4), DMul(v, DSub(DInt(1), v)))

\* sin(pi * u)^2, of period 1 in u.
SinSqTurns(u) ==
    IF ~u.fin \/ u.e > 4 THEN DZero
    ELSE DSquare(SinTurns(DSub(u, DInt(DFloorInt(u)))))

-----------------------------------------------------------------------------
(* Constants of the program *)

WINDOW_WIDTH == 192 * 7
WINDOW_HEIGHT == 108 * 7
ESCAPE_RADIUS_SQUARED == DMul(DInt(100), DInt(100))
ASPECT_RATIO == DDiv(DInt(WINDOW_WIDTH), DInt(WINDOW_HEIGHT))
AA_MAX_SAMPLES == 6

Color(r, g, b) == [r |-> r, g |-> g, b |-> b]

PALETTES ==
    << << Color(66, 30, 15), Color(25, 7, 26), Color(9, 1, 47),
          Color(4, 4, 73), Color(0, 7, 100), Color(12, 44, 138),
          Color(24, 82, 177), Color(57, 125, 209), Color(134, 181, 229),
          Color(211, 236, 248), Color(241, 233, 191), Color(248, 201, 95),
          Color(255, 170, 0), Color(204, 128, 0), Color(153, 87, 0) >>,
       << Color(0, 0, 0), Color(255, 255, 255) >> >>

\* RenderState::getViewportWidth
getViewportWidth(s) == DMul(s.viewportHeight, ASPECT_RATIO)

\* The RenderState a default-constructed object holds.
DefaultState ==
    [viewportX |-> DNorm(-5, -1), viewportY |-> DZero, viewportHeight |-> DInt(3),
     maxIterations |-> 128, colorDensity |-> DNorm(2, -1), showJulia |-> FALSE,
     juliaX |-> DNorm(-8, -1), juliaY |-> DNorm(156, -3), colorScheme |-> 0,
     autoIterations |-> TRUE, fractalType |-> 0, stripes |-> FALSE,
     stripeFrequency |-> DInt(5), stripeIntensity |-> DInt(10),
     innerCalculation |-> FALSE, antiAliasing |-> FALSE]

-----------------------------------------------------------------------------
(* calculateFractal, lines 91-149 *)

\* The fields calculateFractal leaves unset on its interior returns are never
\* read by its callers (lines 179, 256); they are given as zero.
Interior == [iteration |-> -1, smoothIteration |-> DZero, stripeSum |-> DZero]

\* i + 1 - log(log(zr2 + zi2) / 2) / log(2), lines 133 and 146
SmoothIteration(i, mag2) ==
    DSub(DInt(i + 1), DDiv(DLog(DDiv(DLog(mag2), DInt(2))), LogOf2))

InfoAt(i, mag2, stripeSum) ==
    [iteration |-> i, smoothIteration |-> SmoothIteration(i, mag2), stripeSum |-> stripeSum]

\* One pass of the loop body up to i++, lines 123-129: the new zr, zi.
IterZi(zr, zi, ci_actual, fractalType) ==
    DAdd(IF fractalType = 0 THEN DMul(DInt(2), DMul(zr, zi))
         ELSE DMul(DInt(2), DAbs(DMul(zr, zi))), ci_actual)
IterZr(zr2, zi2, cr_actual) == DAdd(DSub(zr2, zi2), cr_actual)

StripeTerm(zr, zi, stripeFrequency) == SinSqTurns(DMul(Atan2Turns(zi, zr), stripeFrequency))

\* The early bailout tests of lines 101-114.
CardioidTest(q, cq, ci) ==
    DLess(DMul(q, DAdd(q, cq)), DMul(DNorm(25, -2), DSquare(ci)))
CardioidQ(cq, ci) == DAdd(DSquare(cq), DSquare(ci))
InCardioid(cr, ci) ==
    CardioidTest(CardioidQ(DSub(cr, DNorm(25, -2)), ci), DSub(cr, DNorm(25, -2)), ci)
InBulb(cr, ci) ==
    DLess(DAdd(DSquare(DAdd(cr, DInt(1))), DSquare(ci)), DNorm(625, -4))
Pruned(cr, ci, isJulia, fractalType, innerCalculation) ==
    /\ ~innerCalculation /\ ~isJulia /\ fractalType = 0
    /\ InCardioid(cr, ci) \/ InBulb(cr, ci)

\* A cap test that lets an orbit which has just left the escape radius go on
\* to the loop condition.
CapTestUnlessEscaped(nl, p) ==
    IF nl.i = p.maxIter /\ DLess(DAdd(nl.zr2, nl.zi2), ESCAPE_RADIUS_SQUARED)
    THEN [nl EXCEPT !.returned = TRUE,
                    !.result = IF p.innerCalculation
                               THEN InfoAt(nl.i, DAdd(nl.zr2, nl.zi2), nl.stripeSum)
                               ELSE Interior]
    ELSE nl

\* Lines 130-141 after the pass that made the locals nl.
CapTest(nl, p) ==
    IF nl.i = p.maxIter
    THEN [nl EXCEPT !.returned = TRUE,
                    !.result = IF p.innerCalculation
                               THEN InfoAt(nl.i, DAdd(nl.zr2, nl.zi2), nl.stripeSum)
                               ELSE Interior]
    ELSE nl

\* A loop body without the i++ of line 129.
AdvanceUncounted(l, p, nzr, nzi) ==
    [l EXCEPT !.zr = nzr, !.zi = nzi, !.zr2 = DSquare(nzr), !.zi2 = DSquare(nzi),
              !.stripeSum = IF p.stripes
                            THEN DAdd(l.stripeSum, StripeTerm(nzr, nzi, p.stripeFrequency))
                            ELSE l.stripeSum]

\* Lines 123-129 with the new zr, zi at hand.
Advance(l, p, nzr, nzi) ==
    [l EXCEPT !.zr = nzr, !.zi = nzi, !.zr2 = DSquare(nzr), !.zi2 = DSquare(nzi),
              !.stripeSum = IF p.stripes
                            THEN DAdd(l.stripeSum, StripeTerm(nzr, nzi, p.stripeFrequency))
                            ELSE l.stripeSum,
              !.i = l.i + 1]

\* One pass of the while loop of lines 122-142 on the locals l, or, when its
\* condition fails, lines 145-148.  p holds the parameters the loop reads.
LoopPass(l, p) ==
    IF ~DLess(DAdd(l.zr2, l.zi2), ESCAPE_RADIUS_SQUARED)
    THEN [l EXCEPT !.returned = TRUE, !.result = InfoAt(l.i, DAdd(l.zr2, l.zi2), l.stripeSum)]
    ELSE CapTest(Advance(l, p, IterZr(l.zr2, l.zi2, p.cr_actual),
                         IterZi(l.zr, l.zi, p.ci_actual, p.fractalType)), p)

\* Up to n passes of the loop, stopping at its return.
RECURSIVE RunLoop(_, _, _)
RunLoop(l, n, p) ==
    IF l.returned \/ n = 0 THEN l
    ELSE IF n = 1 THEN LoopPass(l, p)
    ELSE RunLoop(RunLoop(l, n \div 2, p), n - (n \div 2), p)

\* Passes of the loop the model follows; no return within them is reported as
\* iteration -2, which the function itself never returns.
LoopBound == 128
NoReturn == [iteration |-> -2, smoothIteration |-> DZero, stripeSum |-> DZero]

\* Lines 93-96 and 116-119: the locals at the loop head, and what the loop reads.
InitialLocals(zr, zi) ==
    [zr |-> zr, zi |-> zi, zr2 |-> DSquare(zr), zi2 |-> DSquare(zi),
     stripeSum |-> DZero, i |-> 0, returned |-> FALSE, result |-> NoReturn]
LoopParams(cr, ci, jr, ji, maxIter, isJulia, fractalType, stripes, stripeFrequency, innerCalculation) ==
    [cr_actual |-> IF isJulia THEN jr ELSE cr,
     ci_actual |-> IF isJulia THEN ji ELSE ci,
     maxIter |-> maxIter, fractalType |-> fractalType, stripes |-> stripes,
     stripeFrequency |-> stripeFrequency, innerCalculation |-> innerCalculation]

\* The locals of calculateFractal when it returns.
FractalRun(cr, ci, jr, ji, maxIter, isJulia, fractalType, stripes, stripeFrequency, innerCalculation) ==
    IF Pruned(cr, ci, isJulia, fractalType, innerCalculation)
    THEN [InitialLocals(DZero, DZero) EXCEPT !.returned = TRUE, !.result = Interior]
    ELSE RunLoop(InitialLocals(IF isJulia THEN cr ELSE DZero, IF isJulia THEN ci ELSE DZero),
                 LoopBound,
                 LoopParams(cr, ci, jr, ji, maxIter, isJulia, fractalType, stripes,
                            stripeFrequency, innerCalculation))

calculateFractal(cr, ci, jr, ji, maxIter, isJulia, fractalType, stripes, stripeFrequency, innerCalculation) ==
    FractalRun(cr, ci, jr, ji, maxIter, isJulia, fractalType, stripes,
               stripeFrequency, innerCalculation).result

-----------------------------------------------------------------------------
(* Colour mapping, lines 82-88 and 256-270 (the same code at 179-193) *)

\* static_cast<int>(a): undefined for a non-finite or out of int, where the
\* build decides the outcome.
CastInt(a) == IF InIntRange(a) THEN DTruncInt(a) ELSE build.castInt

\* static_cast<sf::Uint8>(a): undefined unless the truncation is in 0 .. 255.
Uint8Of(n) == IF n >= 0 /\ n <= 255 THEN n ELSE build.castUint8
CastUint8(a) == IF InIntRange(a) THEN Uint8Of(DTruncInt(a)) ELSE build.castUint8

RECURSIVE Pow2Mod(_, _)
Pow2Mod(k, n) == IF k = 0 THEN 1 % n ELSE (2 * Pow2Mod(k - 1, n)) % n

\* int % size_t: the int is converted to the 64-bit unsigned size_t first.
UnsignedMod(i, n) == IF i >= 0 THEN i % n ELSE ((i % n) + Pow2Mod(64, n)) % n

\* One channel of interpolateColors.
Lerp(a, b, factor) == CastUint8(DAdd(DInt(a), DMul(factor, DInt(b - a))))
interpolateColors(c1, c2, factor) ==
    Color(Lerp(c1.r, c2.r, factor), Lerp(c1.g, c2.g, factor), Lerp(c1.b, c2.b, factor))

\* std::floor as a double
DFloor(a) == IF ~a.fin THEN DNonFinite ELSE IF a.e >= 0 THEN a ELSE DInt(DFloorInt(a))

\* Lines 260-266: the float "iterations".
ColorMetric(inf, s) ==
    IF s.stripes
    THEN DMul(s.stripeIntensity, DDiv(inf.stripeSum, DInt(inf.iteration)))
    ELSE DMul(inf.smoothIteration, s.colorDensity)

\* Line 267
PaletteIndex(iterations, palette) == UnsignedMod(CastInt(iterations), Len(palette))

\* Lines 267-269
Stops(index, palette) ==
    [c1 |-> palette[index + 1], c2 |-> palette[((index + 1) % Len(palette)) + 1]]
Blend(stops, fract) == interpolateColors(stops.c1, stops.c2, fract)
MapColor(iterations, palette) ==
    Blend(Stops(PaletteIndex(iterations, palette), palette),
          DSub(iterations, DFloor(iterations)))

\* Lines 256-270
SampleColor(inf, s, palette) ==
    IF inf.iteration = -1 THEN Color(0, 0, 0) ELSE MapColor(ColorMetric(inf, s), palette)

Evaluate(cr, ci, s) ==
    calculateFractal(cr, ci, s.juliaX, s.juliaY, s.maxIterations, s.showJulia,
                     s.fractalType, s.stripes, s.stripeFrequency, s.innerCalculation)

PaletteOf(s) == PALETTES[(s.colorScheme % Len(PALETTES)) + 1]

-----------------------------------------------------------------------------
(* Pixel to world transform *)

\* Lines 249-250: the single-sample coordinate of pixel column (row) p.
SingleCoord(center, half, p, pixelSize) ==
    DAdd(DSub(center, half), DMul(DInt(p), pixelSize))

\* Lines 167-171: the coordinate of sub-sample k of a samples-wide grid.
SubSampleOffset(k, samples) == DDiv(DAdd(DInt(k), DNorm(5, -1)), DInt(samples))
SubSampleCoord(center, half, p, pixelSize, k, samples) ==
    DAdd(DSub(center, half), DMul(DAdd(DInt(p), SubSampleOffset(k, samples)), pixelSize))

pixelHeightOf(s, h) == DDiv(s.viewportHeight, DInt(h))
pixelWidthOf(s, w) == DDiv(getViewportWidth(s), DInt(w))
halfHeightOf(s) == DDiv(s.viewportHeight, DInt(2))
halfWidthOf(s) == DDiv(getViewportWidth(s), DInt(2))

SingleSamplePoint(x, y, s, w, h) ==
    [cr |-> SingleCoord(s.viewportX, halfWidthOf(s), x, pixelWidthOf(s, w)),
     ci |-> SingleCoord(s.viewportY, halfHeightOf(s), y, pixelHeightOf(s, h))]

-----------------------------------------------------------------------------
(* calculateAntiAliasedColor, lines 152-213 *)

\* The colour of sub-sample (sx, sy), lines 166-193.
SubSamplePoint(x, y, s, w, h, sx, sy, samples) ==
    [cr |-> SubSampleCoord(s.viewportX, halfWidthOf(s), x, pixelWidthOf(s, w), sx, samples),
     ci |-> SubSampleCoord(s.viewportY, halfHeightOf(s), y, pixelHeightOf(s, h), sy, samples)]
EvaluateAt(p, s) == Evaluate(p.cr, p.ci, s)
SubSampleColor(x, y, s, w, h, palette, sx, sy, samples) ==
    SampleColor(EvaluateAt(SubSamplePoint(x, y, s, w, h, sx, sy, samples), s), s, palette)

AddColor(a, b) == Color(a.r + b.r, a.g + b.g, a.b + b.b)
DivColor(a, n) == Color(a.r \div n, a.g \div n, a.b \div n)

\* Lines 199-205: the channel sums of the sub-samples, of row sy from column sx
\* on, and of rows sy .. samples - 1.
RECURSIVE SumRow(_, _, _, _, _, _, _, _, _)
SumRow(sx, sy, samples, x, y, s, w, h, palette) ==
    IF sx = samples THEN Color(0, 0, 0)
    ELSE AddColor(SubSampleColor(x, y, s, w, h, palette, sx, sy, samples),
                  SumRow(sx + 1, sy, samples, x, y, s, w, h, palette))

RECURSIVE SumSamples(_, _, _, _, _, _, _, _)
SumSamples(sy, samples, x, y, s, w, h, palette) ==
    IF sy = samples THEN Color(0, 0, 0)
    ELSE AddColor(SumRow(0, sy, samples, x, y, s, w, h, palette),
                  SumSamples(sy + 1, samples, x, y, s, w, h, palette))

\* The function with its sample count as a parameter; lines 207-212 divide.
Supersample(samples, x, y, s, w, h, palette) ==
    DivColor(SumSamples(0, samples, x, y, s, w, h, palette), samples * samples)

calculateAntiAliasedColor(x, y, s, w, h, palette) ==
    Supersample(AA_MAX_SAMPLES + 1, x, y, s, w, h, palette)

\* Lines 241-271: the colour renderFractalRegion gives pixel (x, y).
PixelColor(x, y, s, w, h) ==
    IF s.antiAliasing THEN calculateAntiAliasedColor(x, y, s, w, h, PaletteOf(s))
    ELSE SampleColor(EvaluateAt(SingleSamplePoint(x, y, s, w, h), s), s, PaletteOf(s))

-----------------------------------------------------------------------------
(* adjustIterations, lines 305-311 *)

\* Line 307
zoomFactorOf(s) == DDiv(DInt(3), s.viewportHeight)

adjustIterations(s) ==
    IF s.autoIterations
    THEN [s EXCEPT !.maxIterations =
              Max(100, Min(10000, CastInt(DMul(DInt(100),
                                               DLog10(DAdd(DInt(1), zoomFactorOf(s)))))))]
    ELSE s

-----------------------------------------------------------------------------
(* Bounds and inputs of the model *)

MaxThreads == 3        \* NUM_THREADS ranges over 1 .. MaxThreads
MaxWidth == 2          \* image widths 1 .. MaxWidth
MaxHeight == 3         \* image heights 1 .. MaxHeight
MaxAAPixels == 2       \* anti-aliased images have at most this many pixels

\* What the undefined conversions yield: cvttsd2si (x86-64) gives INT_MIN,
\* whose low byte is 0; a saturating conversion (AArch64) gives 0 for a NaN
\* and the greatest value of the type for +infinity.
Builds == {[castInt |-> INT_MIN, castUint8 |-> 0], [castInt |-> 0, castUint8 |-> 0],
           [castInt |-> INT_MAX, castUint8 |-> 255]}

\* The view after n wheel steps outward with the mouse on the window centre.
ZoomedOut(s, n) == [s EXCEPT !.viewportHeight = DMul(s.viewportHeight, DInt(2 ^ n))]

\* RenderStates handed to renderFractal: the state of the first frame, a
\* zoomed-out striped Julia view, and a zoomed-out anti-aliased view.
FirstFrame == [DefaultState EXCEPT !.maxIterations = 100]
RenderStates ==
    { FirstFrame,
      [ZoomedOut(FirstFrame, 7) EXCEPT !.showJulia = TRUE, !.stripes = TRUE],
      [ZoomedOut(FirstFrame, 3) EXCEPT !.antiAliasing = TRUE, !.colorScheme = 1] }

Unused == <<>>

\* The variables of the pixel pipeline and of the main loop while they play no part.
PixelIdle ==
    /\ px = Unused /\ args = Unused /\ info = Unused /\ sample = Unused
    /\ metric = Unused /\ color = Unused
MainIdle ==
    /\ animating = TRUE /\ frame = 0 /\ windowOpen = TRUE /\ viewChanged = FALSE
    /\ pendingHighQualityRender = FALSE /\ needsRedraw = FALSE
    /\ scrollTimer = FALSE /\ texture = Unused /\ screenshots = <<>> /\ presses = 0
RenderIdle ==
    /\ width = 0 /\ height = 0 /\ numThreads = 0
    /\ pixels = Unused /\ wlog = Unused /\ threads = Unused

-----------------------------------------------------------------------------
(* renderFractal and renderFractalRegion, lines 216-280 *)

\* Band height rounded up instead of down.
linesPerThreadCeil(h, n) == (h + n - 1) \div n

\* Line 218
linesPerThread(h, n) == h \div n
\* Line 221
BandStart(i, h, n) == i * linesPerThread(h, n)

\* A band that runs one row into the next one.
BandEndInclusive(i, h, n) == IF i = n - 1 THEN h ELSE Min(h, (i + 1) * linesPerThread(h, n) + 1)

\* Line 222
BandEnd(i, h, n) == IF i = n - 1 THEN h ELSE (i + 1) * linesPerThread(h, n)

Bytes(w, h) == 0 .. (w * h * 4 - 1)

\* Has the worker left its loops (line 239: y < endY fails).
WorkerDone(t) == t.y >= t.endY

\* Workers that colour the pixel of their own first row plus the row offset.
RegionColorBandLocal(t, s, w, h) == PixelColor(t.x, t.y - t.startY, s, w, h)

\* The colour worker t computes for the pixel it stands on, lines 241-271.
RegionColor(t, s, w, h) == PixelColor(t.x, t.y, s, w, h)

\* Line 273
pixelIndex(x, y, w) == (y * w + x) * 4

\* Line 223: start worker i on its band; it runs from now on.
Spawn ==
    /\ pc = "render"
    /\ Len(threads) < numThreads
    /\ LET i == Len(threads)
           startY == BandStart(i, height, numThreads)
           endY == BandEnd(i, height, numThreads)
       IN  threads' = Append(threads, [startY |-> startY, endY |-> endY, x |-> 0,
                                       y |-> startY, joined |-> FALSE])
    /\ UNCHANGED <<state, build, pc, width, height, numThreads, pixels, wlog,
                   pixelVars, mainVars>>

\* Lines 273-277: the buffer with colour c stored at byte index p.
Store(buf, p, c) == [buf EXCEPT ![p] = c.r, ![p + 1] = c.g, ![p + 2] = c.b, ![p + 3] = 255]
\* The history with worker k's four stores at byte index p.
Logged(log, p, k) ==
    [log EXCEPT ![p] = Append(@, k), ![p + 1] = Append(@, k),
                ![p + 2] = Append(@, k), ![p + 3] = Append(@, k)]
\* Lines 239-240: the loop counters after the pixel at (t.x, t.y).
Moved(t, w) ==
    IF t.x + 1 < w THEN [t EXCEPT !.x = t.x + 1] ELSE [t EXCEPT !.x = 0, !.y = t.y + 1]

\* One pass of worker k's inner loop body, lines 241-278: colour the pixel and
\* store its four bytes, then move on.
WorkerStep(k) ==
    /\ pc = "render"
    /\ k \in 1..Len(threads)
    /\ ~WorkerDone(threads[k])
    /\ pixels' = Store(pixels, pixelIndex(threads[k].x, threads[k].y, width),
                       RegionColor(threads[k], state, width, height))
    /\ wlog' = Logged(wlog, pixelIndex(threads[k].x, threads[k].y, width), k)
    /\ threads' = [threads EXCEPT ![k] = Moved(@, width)]
    /\ UNCHANGED <<state, build, pc, width, height, numThreads, pixelVars, mainVars>>

\* Lines 226-228: join the next thread, which blocks until that worker is done.
Join ==
    /\ pc = "render"
    /\ Len(threads) = numThreads
    /\ \E j \in 1..Len(threads) :
        /\ ~threads[j].joined
        /\ \A i \in 1..(j - 1) : threads[i].joined
        /\ WorkerDone(threads[j])
        /\ threads' = [threads EXCEPT ![j].joined = TRUE]
    /\ UNCHANGED <<state, build, pc, width, height, numThreads, pixels, wlog,
                   pixelVars, mainVars>>

\* A renderFractal that does not wait for its threads.
NoneAwaited(ts) == TRUE

\* Lines 226-228 have run through: every thread of the vector was joined.
AllJoined(ts) == \A j \in 1..Len(ts) : ts[j].joined

\* Line 229: the join loop is over and renderFractal returns to its caller.
Return ==
    /\ pc = "render"
    /\ Len(threads) = numThreads
    /\ AllJoined(threads)
    /\ pc' = "returned"
    /\ UNCHANGED <<state, build, renderVars, pixelVars, mainVars>>

\* A call renderFractal(pixels, state, width, height) on a fresh buffer.
InitRender ==
    /\ state \in RenderStates
    /\ width \in 1..MaxWidth
    /\ height \in 1..MaxHeight
    /\ numThreads \in 1..MaxThreads
    /\ state.antiAliasing => width * height <= MaxAAPixels
    /\ build \in Builds
    /\ pc = "render"
    /\ pixels = [b \in Bytes(width, height) |-> -1]
    /\ wlog = [b \in Bytes(width, height) |-> <<>>]
    /\ threads = <<>>
    /\ PixelIdle
    /\ MainIdle

NextRender == Spawn \/ (\E k \in 1..MaxThreads : WorkerStep(k)) \/ Join \/ Return

SpecRender == InitRender /\ [][NextRender]_vars

-----------------------------------------------------------------------------
(* Properties of a render call *)

RowOf(b) == (b \div 4) \div width
Writers(b) == {wlog[b][i] : i \in 1..Len(wlog[b])}

\* C1: every byte a worker has written lies in a row of the worker's own band
\* [startY, endY), and no byte has been written by two different workers, in
\* every state of every interleaving.
C1_OwnBandOnly ==
    \A b \in DOMAIN wlog :
        /\ \A k \in Writers(b) :
               /\ k \in 1..Len(threads)
               /\ BandStart(k - 1, height, numThreads) <= RowOf(b)
               /\ RowOf(b) < BandEnd(k - 1, height, numThreads)
        /\ Cardinality(Writers(b)) <= 1

\* The call has returned and two workers have each written bytes of a frame
\* more than one pixel wide.
C1_Witness ==
    /\ pc = "returned" /\ width >= 2
    /\ \E b1, b2 \in DOMAIN wlog : Writers(b1) # {} /\ Writers(b2) # {} /\ Writers(b1) # Writers(b2)

\* C2: the bands of the workers started so far are contiguous from row 0 on,
\* bands 0 .. N-2 have floor(height / N) rows, and once all N are started the
\* last band has height - (N-1) * floor(height / N) rows and ends at height,
\* so that every row 0 .. height-1 lies in exactly one band.
C2_BandsPartitionRows ==
    /\ \A k \in 1..Len(threads) :
           /\ threads[k].startY = (IF k = 1 THEN 0 ELSE threads[k - 1].endY)
           /\ threads[k].startY <= threads[k].endY
           /\ k < numThreads => threads[k].endY - threads[k].startY = height \div numThreads
           /\ k = numThreads =>
                  /\ threads[k].endY - threads[k].startY
                         = height - (numThreads - 1) * (height \div numThreads)
                  /\ threads[k].endY = height
    /\ Len(threads) = numThreads =>
           \A row \in 0..(height - 1) :
               Cardinality({k \in 1..numThreads :
                                threads[k].startY <= row /\ row < threads[k].endY}) = 1

\* All workers are started, there are more workers than rows, and the last
\* band holds every row.
C2_Witness ==
    /\ Len(threads) = numThreads /\ numThreads > height /\ height >= 2
    /\ threads[numThreads].endY - threads[numThreads].startY = height
    /\ threads[1].endY = 0

\* C3: when renderFractal has returned, every worker it started has left its
\* loops, and every byte of every pixel's cell was written exactly once, the
\* alpha byte with 255.
C3_ReturnsWhenFilled ==
    pc = "returned" =>
        /\ Len(threads) = numThreads
        /\ \A k \in 1..Len(threads) : WorkerDone(threads[k])
        /\ \A b \in Bytes(width, height) :
               /\ Len(wlog[b]) = 1
               /\ pixels[b] \in 0..255
               /\ b % 4 = 3 => pixels[b] = 255

\* The call has returned from a render of several rows by several workers,
\* each with rows of its own.
C3_Witness ==
    /\ pc = "returned" /\ numThreads >= 2 /\ width >= 2
    /\ \A k \in 1..numThreads : threads[k].endY > threads[k].startY

Channel(c, ch) == IF ch = 0 THEN c.r ELSE IF ch = 1 THEN c.g ELSE IF ch = 2 THEN c.b ELSE 255

\* The sequential render: one worker (N = 1) on the band it is given.
SequentialWorker(x, y, h) ==
    [startY |-> BandStart(0, h, 1), endY |-> BandEnd(0, h, 1), x |-> x, y |-> y,
     joined |-> FALSE]
SequentialRender(s, w, h) ==
    [b \in Bytes(w, h) |->
        Channel(RegionColor(SequentialWorker((b \div 4) % w, (b \div 4) \div w, h), s, w, h),
                b % 4)]

\* C4: the buffer a render leaves, with any number of workers finishing in
\* any order, is byte for byte the buffer of the sequential N = 1 render of
\* the same RenderState, width and height.
C4_SameAsSequential ==
    pc = "returned" => pixels = SequentialRender(state, width, height)

\* A returned render by several workers whose frame holds an interior (black)
\* pixel and a coloured one in different rows.
C4_Witness ==
    /\ pc = "returned" /\ numThreads >= 2 /\ height >= 2
    /\ threads[1].endY > 0 /\ threads[1].endY < height
    /\ \E b1, b2 \in DOMAIN pixels :
           /\ b1 % 4 = 0 /\ b2 % 4 = 0 /\ RowOf(b1) # RowOf(b2)
           /\ pixels[b1] # pixels[b2]

-----------------------------------------------------------------------------
(* A render call followed to its end.  What the calls of calculateFractal  *)
(* do depends on the frame's inputs alone, so their outcomes are worked    *)
(* out when renderFractal is called: info holds, for each pixel, the       *)
(* locals every call made for it ends with, and color the colour lines     *)
(* 241-271 give it.                                                        *)
(* A worker gets past a pixel only if the calls made for it return.        *)

\* The locals of calculateFractal at its return for the call of lines 174-176
\* (253-254) on point p.
RunAt(p, s) ==
    FractalRun(p.cr, p.ci, s.juliaX, s.juliaY, s.maxIterations, s.showJulia,
               s.fractalType, s.stripes, s.stripeFrequency, s.innerCalculation)

\* The points calculateFractal is called on for pixel (x, y): the grid of
\* lines 164-171, or the single point of lines 249-250.
SamplePoints(x, y, s, w, h) ==
    IF s.antiAliasing
    THEN {SubSamplePoint(x, y, s, w, h, sx, sy, AA_MAX_SAMPLES + 1) :
              sx \in 0..AA_MAX_SAMPLES, sy \in 0..AA_MAX_SAMPLES}
    ELSE {SingleSamplePoint(x, y, s, w, h)}

PixelsOf(w, h) == (0..(w - 1)) \X (0..(h - 1))
PixelRuns(x, y, s, w, h) == {RunAt(p, s) : p \in SamplePoints(x, y, s, w, h)}

\* The call that ended with locals l returned after at most m passes of the
\* loop body (l.i counts them, line 129).
WithinCap(l, m) == l.returned /\ l.i <= m

\* Every call made for the pixel at xy comes back.
PixelReturns(xy) == \A l \in info[xy] : l.returned

\* Lines 241-278 for worker k's pixel.
WorkerPixel(k) ==
    /\ pc = "render"
    /\ k \in 1..Len(threads)
    /\ ~WorkerDone(threads[k])
    /\ PixelReturns(<<threads[k].x, threads[k].y>>)
    /\ pixels' = Store(pixels, pixelIndex(threads[k].x, threads[k].y, width),
                       color[<<threads[k].x, threads[k].y>>])
    /\ wlog' = Logged(wlog, pixelIndex(threads[k].x, threads[k].y, width), k)
    /\ threads' = [threads EXCEPT ![k] = Moved(@, width)]
    /\ UNCHANGED <<state, build, pc, width, height, numThreads, pixelVars, mainVars>>

\* RenderStates with an iteration cap of at least 1 and a positive viewport
\* height: those of RenderStates, and views whose orbits run into caps of 1,
\* 2 and 100 passes (no pruning with innerCalculation or the second fractal).
CappedStates ==
    { [FirstFrame EXCEPT !.innerCalculation = TRUE],
      [FirstFrame EXCEPT !.innerCalculation = TRUE, !.maxIterations = 1],
      [FirstFrame EXCEPT !.fractalType = 1, !.maxIterations = 2] }
CompletionStates == RenderStates \cup CappedStates

InitCompletion ==
    /\ state \in CompletionStates
    /\ width \in 1..MaxWidth
    /\ height \in 1..MaxHeight
    /\ numThreads \in 1..MaxThreads
    /\ state.antiAliasing => width * height <= MaxAAPixels
    /\ build \in Builds
    /\ pc = "caller"
    /\ pixels = [b \in Bytes(width, height) |-> -1]
    /\ wlog = [b \in Bytes(width, height) |-> <<>>]
    /\ threads = <<>>
    /\ PixelIdle
    /\ MainIdle

\* Lines 543, 553: the caller calls renderFractal, whenever it chooses to.
CallRender ==
    /\ pc = "caller"
    /\ info' = [xy \in PixelsOf(width, height) |->
                   PixelRuns(xy[1], xy[2], state, width, height)]
    /\ color' = [xy \in PixelsOf(width, height) |->
                    PixelColor(xy[1], xy[2], state, width, height)]
    /\ pc' = "render"
    /\ UNCHANGED <<state, build, renderVars, px, args, sample, metric, mainVars>>

NextCompletion == CallRender \/ Spawn \/ (\E k \in 1..MaxThreads : WorkerPixel(k)) \/ Join \/ Return

\* Inside renderFractal the calling thread keeps running (lines 220-229) and
\* the scheduler gives every worker that can go on a turn.
FairCompletion ==
    /\ WF_vars(Spawn) /\ WF_vars(Join) /\ WF_vars(Return)
    /\ \A k \in 1..MaxThreads : WF_vars(WorkerPixel(k))

SpecCompletion == InitCompletion /\ [][NextCompletion]_vars /\ FairCompletion

\* Every call of the render returns within maxIterations passes of the loop.
CallsWithinCap ==
    pc # "caller" =>
        \A xy \in DOMAIN info : \A l \in info[xy] : WithinCap(l, state.maxIterations)

\* renderFractal has returned with every worker at the end of its band.
Completed ==
    /\ pc = "returned"
    /\ Len(threads) = numThreads
    /\ \A k \in 1..Len(threads) : WorkerDone(threads[k]) /\ threads[k].joined

\* C11: for every RenderState with an iteration cap of at least 1 and a
\* positive viewport height, every calculateFractal call of a render returns
\* after at most maxIterations passes of its loop, and under fair scheduling
\* every worker finishes its band and a renderFractal that was called returns.
C11_RenderCompletes ==
    /\ [](state.maxIterations >= 1 /\ DLess(DZero, state.viewportHeight) => CallsWithinCap)
    /\ (pc = "render" ~> Completed)

\* A render by two or more workers has returned, and one of its calls ran its
\* loop to a cap of 100 passes.
C11_Witness ==
    /\ Completed /\ numThreads >= 2 /\ height >= 2 /\ state.maxIterations = 100
    /\ \E xy \in DOMAIN info : \E l \in info[xy] : l.i = state.maxIterations

-----------------------------------------------------------------------------
(* One call of calculateFractal *)

\* Sample points: two in the seahorse valley whose orbits leave the escape
\* radius at steps 100 and 99, one far outside the escape radius, one in the
\* main cardioid, one close outside the set.
FractalPoints ==
    { [cr |-> DNorm(-75, -2), ci |-> DNorm(327, -4)],
      [cr |-> DNorm(-75, -2), ci |-> DNorm(333, -4)],
      [cr |-> DInt(150), ci |-> DZero],
      [cr |-> DNorm(-5, -1), ci |-> DZero],
      [cr |-> DInt(1), ci |-> DInt(1)] }

\* Iteration caps: the K-key floor, the first frame's cap, and the cap after
\* K, K, I from it.
FractalCaps == {50, 99, 100}

FractalArgs ==
    { [cr |-> p.cr, ci |-> p.ci, jr |-> DefaultState.juliaX, ji |-> DefaultState.juliaY,
       maxIter |-> m, isJulia |-> j, fractalType |-> t, stripes |-> st,
       stripeFrequency |-> DefaultState.stripeFrequency, innerCalculation |-> inner] :
      p \in FractalPoints, m \in FractalCaps, j \in BOOLEAN, t \in {0, 1},
      st \in BOOLEAN, inner \in BOOLEAN }

\* calculateFractal applied to a (lines 174-176, 253-254).
Apply(a) ==
    calculateFractal(a.cr, a.ci, a.jr, a.ji, a.maxIter, a.isJulia, a.fractalType,
                     a.stripes, a.stripeFrequency, a.innerCalculation)

Call ==
    /\ pc = "call"
    /\ info' = Apply(args)
    /\ pc' = "done"
    /\ UNCHANGED <<state, build, renderVars, px, args, sample, metric, color, mainVars>>

InitFractal ==
    /\ args \in FractalArgs
    /\ state = DefaultState
    /\ build \in Builds
    /\ pc = "call"
    /\ RenderIdle /\ MainIdle
    /\ px = Unused /\ info = Unused /\ sample = Unused /\ metric = Unused /\ color = Unused

NextFractal == Call
SpecFractal == InitFractal /\ [][NextFractal]_vars

-----------------------------------------------------------------------------
(* The single-sample path for one pixel, lines 247-271 *)

\* RenderStates of the single-sample path: the first frame, zoomed-out striped
\* views in Julia and in Mandelbrot mode, and the striped first frame.
PixelStates ==
    { FirstFrame,
      [ZoomedOut(FirstFrame, 7) EXCEPT !.showJulia = TRUE, !.stripes = TRUE],
      [ZoomedOut(FirstFrame, 7) EXCEPT !.stripes = TRUE],
      [FirstFrame EXCEPT !.stripes = TRUE] }

\* Lines 249-250
Locate ==
    /\ pc = "pixel"
    /\ sample' = SingleSamplePoint(px.x, px.y, state, width, height)
    /\ pc' = "located"
    /\ UNCHANGED <<state, build, renderVars, px, args, info, metric, color, mainVars>>

\* Lines 253-254
Iterate ==
    /\ pc = "located"
    /\ info' = Evaluate(sample.cr, sample.ci, state)
    /\ pc' = "evaluated"
    /\ UNCHANGED <<state, build, renderVars, px, args, sample, metric, color, mainVars>>

\* Lines 256-258
Black ==
    /\ pc = "evaluated"
    /\ info.iteration = -1
    /\ color' = Color(0, 0, 0)
    /\ pc' = "colored"
    /\ UNCHANGED <<state, build, renderVars, px, args, info, sample, metric, mainVars>>

\* Lines 259-266
Scale ==
    /\ pc = "evaluated"
    /\ info.iteration # -1
    /\ metric' = ColorMetric(info, state)
    /\ pc' = "metric"
    /\ UNCHANGED <<state, build, renderVars, px, args, info, sample, color, mainVars>>

\* Lines 267-269
Map ==
    /\ pc = "metric"
    /\ color' = MapColor(metric, PaletteOf(state))
    /\ pc' = "colored"
    /\ UNCHANGED <<state, build, renderVars, px, args, info, sample, metric, mainVars>>

InitPixel ==
    /\ state \in PixelStates
    /\ build \in Builds
    /\ pc = "pixel"
    /\ width \in 1..MaxWidth
    /\ height \in 1..MaxHeight
    /\ numThreads = 0 /\ pixels = Unused /\ wlog = Unused /\ threads = Unused
    /\ px \in [x : 0..(width - 1), y : 0..(height - 1)]
    /\ args = Unused /\ info = Unused /\ sample = Unused /\ metric = Unused
    /\ color = Unused
    /\ MainIdle

NextPixel == Locate \/ Iterate \/ Black \/ Scale \/ Map
SpecPixel == InitPixel /\ [][NextPixel]_vars

-----------------------------------------------------------------------------
(* Properties of the evaluator and of the single-sample path *)

\* The orbit z0, z1, ... of a call: z0 is the sample point in Julia mode and 0
\* otherwise, and each step applies the iteration of lines 123-127.
OrbitStart(a) ==
    [zr |-> IF a.isJulia THEN a.cr ELSE DZero, zi |-> IF a.isJulia THEN a.ci ELSE DZero,
     step |-> 0, escaped |-> FALSE]
Magnitude2(o) == DAdd(DSquare(o.zr), DSquare(o.zi))
OrbitNext(o, a) ==
    IF o.escaped THEN o
    ELSE IF ~DLess(Magnitude2(o), ESCAPE_RADIUS_SQUARED) THEN [o EXCEPT !.escaped = TRUE]
    ELSE [zr |-> IterZr(DSquare(o.zr), DSquare(o.zi), IF a.isJulia THEN a.jr ELSE a.cr),
          zi |-> IterZi(o.zr, o.zi, IF a.isJulia THEN a.ji ELSE a.ci, a.fractalType),
          step |-> o.step + 1, escaped |-> FALSE]
RECURSIVE OrbitRun(_, _, _)
OrbitRun(o, n, a) ==
    IF o.escaped \/ n = 0 THEN o
    ELSE IF n = 1 THEN OrbitNext(o, a)
    ELSE OrbitRun(OrbitRun(o, n \div 2, a), n - (n \div 2), a)

\* The orbit of a at its first step in 0 .. n with |z|^2 >= escapeRadius^2
\* (escaped = TRUE), or at step n + 1 if there is none.
FirstEscape(a, n) == OrbitRun(OrbitStart(a), n + 1, a)

\* What a call reports for an orbit that first leaves the radius at o.step.
EscapedAt(o, inf) ==
    /\ inf.iteration = o.step
    /\ inf.smoothIteration = SmoothIteration(o.step, Magnitude2(o))
ReportsOrbit(o, inf) ==
    /\ inf.iteration = -1 <=> ~o.escaped
    /\ o.escaped => EscapedAt(o, inf)

Unpruned(a) ==
    /\ ~a.innerCalculation
    /\ ~Pruned(a.cr, a.ci, a.isJulia, a.fractalType, a.innerCalculation)

\* C8 as stated: with interior colouring off and no pruning, the call reports
\* interior iff the orbit has no step i <= maxIter with |z|^2 >= escapeRadius^2,
\* and an orbit whose first such step is i <= maxIter is reported as escaped at
\* iteration i with the smoothed value of that step.
C8_EscapeWithinCap ==
    (pc = "done" /\ Unpruned(args)) => ReportsOrbit(FirstEscape(args, args.maxIter), info)

\* C8 amended: the same with the first maxIter - 1 steps: an orbit that first
\* leaves the radius at step maxIter is reported as interior.
C8_EscapeBelowCap ==
    (pc = "done" /\ Unpruned(args)) => ReportsOrbit(FirstEscape(args, args.maxIter - 1), info)

\* A call with the first frame's cap whose orbit first leaves the radius on the
\* last step the call can report, maxIter - 1.
C8_Witness ==
    /\ pc = "done" /\ Unpruned(args) /\ args.maxIter = 100
    /\ info.iteration = args.maxIter - 1
    /\ FirstEscape(args, args.maxIter).step = args.maxIter - 1

\* C5: when stripe colouring is on and the evaluation of the sample is not
\* interior, the iteration count that divides stripeSum is at least 1.
C5_DivisorAtLeastOne ==
    (pc \in {"evaluated", "metric", "colored"} /\ state.stripes /\ info.iteration # -1)
        => info.iteration >= 1

\* C6: the sample coordinate of the single-sample path is the pixel centre,
\* the coordinate of the one sub-sample of a 1x1 grid, and the colour of the
\* path is the colour of that 1x1 supersample.
C6_CentreSampled ==
    /\ pc \in {"located", "evaluated", "metric", "colored"} =>
           sample = SubSamplePoint(px.x, px.y, state, width, height, 0, 0, 1)
    /\ pc = "colored" =>
           color = Supersample(1, px.x, px.y, state, width, height, PaletteOf(state))

-----------------------------------------------------------------------------
(* The colour of a metric, lines 267-269 *)

MaxMetric == 8         \* metrics range over -MaxMetric .. MaxMetric in quarters
MaxShift == 2          \* shifts by k palette lengths, |k| <= MaxShift

Metrics == {DNorm(25 * q, -2) : q \in (-4 * MaxMetric)..(4 * MaxMetric)}

InitColor ==
    /\ metric \in Metrics
    /\ state \in {[DefaultState EXCEPT !.colorScheme = c] : c \in {0, 1}}
    /\ build \in Builds
    /\ pc = "metric"
    /\ RenderIdle /\ MainIdle
    /\ px = Unused /\ args = Unused /\ info = Unused /\ sample = Unused /\ color = Unused

NextColor == Map
SpecColor == InitColor /\ [][NextColor]_vars

Shifted(m, k, palette) == DAdd(m, DInt(k * Len(palette)))

\* C7: the palette index of a metric is floor(metric) mod the palette length,
\* within 0 .. length - 1, and the colour of metric + k * length is the colour
\* of the metric for every integer k, whatever the sign of the metric.
C7_CyclicFloorIndex ==
    pc = "colored" =>
        /\ PaletteIndex(metric, PaletteOf(state))
               = DFloorInt(metric) % Len(PaletteOf(state))
        /\ PaletteIndex(metric, PaletteOf(state)) \in 0..(Len(PaletteOf(state)) - 1)
        /\ \A k \in (-MaxShift)..MaxShift :
               MapColor(Shifted(metric, k, PaletteOf(state)), PaletteOf(state)) = color

-----------------------------------------------------------------------------
(* One call of adjustIterations *)

\* Viewport heights m * 10^e: around the first frame's 3.0, down to the
\* limit of double precision zooms, where the cap reaches its maximum, and
\* among the least positive doubles.
HeightDigits == {1, 2, 3, 5, 7}
HeightExponents == (-12..2) \cup {-102, -101, -100, -99} \cup {-310}
Heights == {DNorm(m, e) : m \in HeightDigits, e \in HeightExponents}

Adjust ==
    /\ pc = "adjust"
    /\ state' = adjustIterations(state)
    /\ pc' = "adjusted"
    /\ UNCHANGED <<build, renderVars, pixelVars, mainVars>>

InitAdjust ==
    /\ state \in {[DefaultState EXCEPT !.viewportHeight = v, !.autoIterations = a] :
                      v \in Heights, a \in BOOLEAN}
    /\ build \in Builds
    /\ pc = "adjust"
    /\ RenderIdle /\ PixelIdle /\ MainIdle

NextAdjust == Adjust
SpecAdjust == InitAdjust /\ [][NextAdjust]_vars

\* floor(100 * log10(1 + 3.0 / h)) for a height h > 0, in real arithmetic.
RealQuotient(a, b) ==
    Cut(TruncDiv(a.m * 100000, b.m), a.e - b.e - 5,
        NumDigits(Abs(TruncDiv(a.m * 100000, b.m))))
RealCap(h) == Log10x100Floor(DAdd(DInt(1), RealQuotient(DInt(3), h)))
Clamp(n, lo, hi) == IF n < lo THEN lo ELSE IF n > hi THEN hi ELSE n

\* C9: after adjustIterations with autoIterations set, maxIterations is
\* 100 * log10(1 + 3.0 / viewportHeight) truncated to an integer and clamped
\* to 100 .. 10000; a viewport height of 3.0 gives 100 and 3e-10 gives 1000.
C9_ClampedLog ==
    (pc = "adjusted" /\ state.autoIterations) =>
        /\ state.maxIterations \in 100..10000
        /\ state.maxIterations = Clamp(RealCap(state.viewportHeight), 100, 10000)
        /\ state.viewportHeight = DInt(3) => state.maxIterations = 100
        /\ state.viewportHeight = DNorm(3, -10) => state.maxIterations = 1000

-----------------------------------------------------------------------------
(* main, lines 313-580: the operations that change the iteration cap and   *)
(* the viewport, and the loop that schedules the renders.  animating is    *)
(* the compile-time switch of line 12: with it set the event loop is left  *)
(* at line 379 before any handler, without it the animation step of lines  *)
(* 565-574 is skipped.  The handlers of the other keys and of mouse        *)
(* dragging leave maxIterations and viewportHeight alone.                  *)

MaxPresses == 1        \* wheel and K-key events handled in a run
MaxFrames == 4         \* frames of the animation

\* Line 475: static_cast<int>(maxIterations * 1.5); the product is exact in a
\* double and the conversion is undefined when it is outside int.
IncreasedIterations(m) ==
    IF m >= -(2 * (INT_MAX \div 3) + 1) /\ m <= 2 * (INT_MAX \div 3) + 1
    THEN Sgn(m) * (Abs(m) + (Abs(m) \div 2))
    ELSE build.castInt

\* Line 480: std::max(50, static_cast<int>(maxIterations / 1.5))
DecreasedIterations(m) ==
    IF m < 0 THEN 50
    ELSE Max(50, m - (m \div 3) - (IF m % 3 = 0 THEN 0 ELSE 1))

\* Lines 388-397 with the mouse on pixel (mx, my) and zoomFactor z.
MouseX(s, mx) ==
    DAdd(DSub(s.viewportX, DDiv(getViewportWidth(s), DInt(2))),
         DDiv(DMul(DInt(mx), getViewportWidth(s)), DInt(WINDOW_WIDTH)))
MouseY(s, my) ==
    DAdd(DSub(s.viewportY, DDiv(s.viewportHeight, DInt(2))),
         DDiv(DMul(DInt(my), s.viewportHeight), DInt(WINDOW_HEIGHT)))
Toward(mouse, v, z) == DAdd(mouse, DMul(DSub(v, mouse), z))
Zoomed(s, mx, my, z) ==
    [s EXCEPT !.viewportX = Toward(MouseX(s, mx), s.viewportX, z),
              !.viewportY = Toward(MouseY(s, my), s.viewportY, z),
              !.viewportHeight = DMul(s.viewportHeight, z)]

\* Lines 568-572
Eased(v, target, steps) == DAdd(v, DDiv(DSub(target, v), DInt(steps)))
AnimationStep(s) ==
    [s EXCEPT !.viewportX = Eased(s.viewportX, DNorm(-1711, -3), 1),
              !.viewportY = Eased(s.viewportY, DNorm(3109, -7), 1),
              !.viewportHeight = Eased(s.viewportHeight, DNorm(1705, -16), 25),
              !.colorDensity = Eased(s.colorDensity, DNorm(1869, -5), 25),
              !.maxIterations = s.maxIterations + TruncDiv(1941 - s.maxIterations, 25)]

\* Line 345
Startup ==
    /\ pc = "start"
    /\ state' = adjustIterations(state)
    /\ pc' = "firstRender"
    /\ UNCHANGED <<build, renderVars, pixelVars, mainVars>>

\* Lines 348-365: the initial render, and the loop's locals.
FirstRender ==
    /\ pc = "firstRender"
    /\ texture' = state
    /\ viewChanged' = FALSE /\ pendingHighQualityRender' = FALSE /\ scrollTimer' = FALSE
    /\ pc' = "loop"
    /\ UNCHANGED <<state, build, renderVars, pixelVars, animating, frame, windowOpen,
                   needsRedraw, screenshots, presses>>

\* Lines 368-371
LoopHead ==
    /\ pc = "loop"
    /\ IF windowOpen THEN needsRedraw' = FALSE /\ pc' = "poll"
                     ELSE needsRedraw' = needsRedraw /\ pc' = "exit"
    /\ UNCHANGED <<state, build, renderVars, pixelVars, animating, frame, windowOpen,
                   viewChanged, pendingHighQualityRender, scrollTimer,
                   texture, screenshots, presses>>

\* Line 373: no event is pending.
NoEvent ==
    /\ pc = "poll"
    /\ pc' = "schedule"
    /\ UNCHANGED <<state, build, renderVars, pixelVars, mainVars>>

\* Lines 374-380: the window is closed; the animating build leaves the event loop.
Closed ==
    /\ pc = "poll"
    /\ windowOpen
    /\ windowOpen' = FALSE
    /\ pc' = IF animating THEN "schedule" ELSE "poll"
    /\ UNCHANGED <<state, build, renderVars, pixelVars, animating, frame, viewChanged,
                   pendingHighQualityRender, needsRedraw, scrollTimer,
                   texture, screenshots, presses>>

\* Lines 377-380: any other event in the animating build.
Break ==
    /\ pc = "poll"
    /\ animating
    /\ pc' = "schedule"
    /\ UNCHANGED <<state, build, renderVars, pixelVars, mainVars>>

\* Lines 382-406: a wheel step with the mouse on the window centre.
Wheel(z) ==
    /\ pc = "poll"
    /\ ~animating
    /\ presses < MaxPresses
    /\ state' = adjustIterations(Zoomed(state, WINDOW_WIDTH \div 2, WINDOW_HEIGHT \div 2, z))
    /\ needsRedraw' = TRUE /\ viewChanged' = TRUE /\ scrollTimer' = FALSE
    /\ presses' = presses + 1
    /\ UNCHANGED <<build, pc, renderVars, pixelVars, animating, frame, windowOpen,
                   pendingHighQualityRender, texture, screenshots>>

\* Lines 452-460
KeyR ==
    /\ pc = "poll"
    /\ ~animating
    /\ state' = adjustIterations([state EXCEPT !.viewportX = DNorm(-5, -1),
                                               !.viewportY = DZero,
                                               !.viewportHeight = DInt(3)])
    /\ needsRedraw' = TRUE /\ viewChanged' = FALSE /\ pendingHighQualityRender' = TRUE
    /\ UNCHANGED <<build, pc, renderVars, pixelVars, animating, frame, windowOpen,
                   scrollTimer, texture, screenshots, presses>>

\* Lines 474-478
KeyI ==
    /\ pc = "poll"
    /\ ~animating
    /\ state' = [state EXCEPT !.maxIterations = IncreasedIterations(state.maxIterations),
                              !.autoIterations = FALSE]
    /\ needsRedraw' = TRUE
    /\ UNCHANGED <<build, pc, renderVars, pixelVars, animating, frame, windowOpen,
                   viewChanged, pendingHighQualityRender, scrollTimer,
                   texture, screenshots, presses>>

\* Lines 479-483
KeyK ==
    /\ pc = "poll"
    /\ ~animating
    /\ presses < MaxPresses
    /\ state' = [state EXCEPT !.maxIterations = DecreasedIterations(state.maxIterations),
                              !.autoIterations = FALSE]
    /\ needsRedraw' = TRUE
    /\ presses' = presses + 1
    /\ UNCHANGED <<build, pc, renderVars, pixelVars, animating, frame, windowOpen,
                   viewChanged, pendingHighQualityRender, scrollTimer, texture, screenshots>>

\* Lines 484-490
KeyA ==
    /\ pc = "poll"
    /\ ~animating
    /\ state' = adjustIterations([state EXCEPT !.autoIterations = ~state.autoIterations])
    /\ needsRedraw' = (needsRedraw \/ ~state.autoIterations)
    /\ UNCHANGED <<build, pc, renderVars, pixelVars, animating, frame, windowOpen,
                   viewChanged, pendingHighQualityRender, scrollTimer,
                   texture, screenshots, presses>>

\* Lines 535-541, 550: late says whether the timer is past SCROLL_RENDER_DELAY,
\* which it stays until it is restarted.
Schedule ==
    /\ pc = "schedule"
    /\ \E late \in BOOLEAN :
        /\ scrollTimer => late
        /\ scrollTimer' = late
        /\ viewChanged' = (viewChanged /\ ~late)
        /\ pendingHighQualityRender' = (pendingHighQualityRender \/ (viewChanged /\ late))
    /\ pc' = IF pendingHighQualityRender' \/ needsRedraw THEN "render" ELSE "draw"
    /\ UNCHANGED <<state, build, renderVars, pixelVars, animating, frame, windowOpen,
                   needsRedraw, texture, screenshots, presses>>

\* Lines 541-559: renderFractal is called and its frame goes to the texture.
Render ==
    /\ pc = "render"
    /\ texture' = state
    /\ pendingHighQualityRender' = FALSE
    /\ pc' = "draw"
    /\ UNCHANGED <<state, build, renderVars, pixelVars, animating, frame, windowOpen,
                   viewChanged, needsRedraw, scrollTimer, screenshots, presses>>

\* Lines 562-564 in the build without the animation
Draw ==
    /\ pc = "draw"
    /\ ~animating
    /\ pc' = "loop"
    /\ UNCHANGED <<state, build, renderVars, pixelVars, mainVars>>

\* Lines 283-301: the file frame.png gets a copy of the texture (tex, the
\* RenderState it was rendered from) while RenderState s is in effect.
saveScreenshot(shots, tex, s, n) == Append(shots, [frame |-> n, texture |-> tex, state |-> s])

\* Lines 562-574 in the animating build
Animate ==
    /\ pc = "draw"
    /\ animating
    /\ frame < MaxFrames
    /\ screenshots' = saveScreenshot(screenshots, texture, state, frame)
    /\ state' = AnimationStep(state)
    /\ viewChanged' = TRUE
    /\ frame' = frame + 1
    /\ pc' = "loop"
    /\ UNCHANGED <<build, renderVars, pixelVars, animating, windowOpen,
                   pendingHighQualityRender, needsRedraw, scrollTimer, texture, presses>>

\* Line 344: the default-constructed RenderState.
InitMain ==
    /\ state = DefaultState
    /\ build \in Builds
    /\ pc = "start"
    /\ animating \in BOOLEAN
    /\ frame = 0 /\ windowOpen = TRUE /\ viewChanged = FALSE
    /\ pendingHighQualityRender = FALSE /\ needsRedraw = FALSE
    /\ scrollTimer = FALSE /\ texture = Unused /\ screenshots = <<>> /\ presses = 0
    /\ RenderIdle /\ PixelIdle

NextMain ==
    \/ Startup \/ FirstRender \/ LoopHead \/ NoEvent \/ Closed \/ Break
    \/ (\E z \in {DNorm(5, -1), DInt(2)} : Wheel(z))
    \/ KeyR \/ KeyI \/ KeyK \/ KeyA
    \/ Schedule \/ Render \/ Draw \/ Animate
SpecMain == InitMain /\ [][NextMain]_vars

\* C10: whenever a render is started, the iteration cap is at least 1 and the
\* viewport height is positive.
C10_RenderStateInvariant ==
    pc \in {"firstRender", "render"} =>
        /\ state.maxIterations >= 1
        /\ DLess(DZero, state.viewportHeight)

\* C12: in animation mode every saved screenshot holds a buffer rendered from
\* the RenderState in effect when it was saved, whatever the scroll timer
\* read when the renders were scheduled.
C12_NoStaleFrameSaved ==
    \A n \in 1..Len(screenshots) : screenshots[n].texture = screenshots[n].state

====
